---- MODULE Spec2Model ----
(***************************************************************************)
(* PuppeteerPool (src/unnamed/part_001): a pool of browser instances with  *)
(* page allocation, retirement, the kill procedure, the reaper, disk-cache *)
(* directory recycling and destroy.                                        *)
(*                                                                         *)
(* The pool runs on one JavaScript event loop.  Every action below is one  *)
(* run-to-completion step: a public call up to its first await, a timer    *)
(* callback, a browser event handler, or the settling of a promise         *)
(* together with the continuations that were waiting on it (they run in    *)
(* the same microtask flush, before any other event).                      *)
(***************************************************************************)
EXTENDS Integers, Sequences, FiniteSets, TLC

\* ---------------------------------------------------------------- bounds
MaxInstances == 3     \* browsers the pool may launch (ids 0..MaxInstances-1)
MaxCalls == 3         \* newPage calls
MaxRetires == 1       \* retire(browser) calls in progress
MaxDestroys == 1      \* destroy() calls in progress
MaxClock == 1         \* Date.now() ranges over 0..MaxClock
MaxListings == 1      \* browser.pages() requests outstanding per instance
MaxOtherTargets == 1  \* targets of type other a browser starts with
KillAfterTicks == 0   \* the killInstanceAfterMillis option, in clock ticks
MaxWorkerTargets == 1 \* service-worker targets a browser starts with

Ids == 0 .. (MaxInstances - 1)
NoInstance == -1
NoDir == 0

\* ----------------------------------------------------------------- state
VARIABLES
    maxOpenPagesPerInstance,          \* this.maxOpenPagesPerInstance
    retireInstanceAfterRequestCount,  \* this.retireInstanceAfterRequestCount
    recycleDiskCache,                 \* the recycleDiskCache option
    launchPuppeteerOptions,           \* the launchPuppeteerOptions option
    limits,                           \* how many launches, calls and other targets are followed
    now,                              \* Date.now()
    browserCounter,                   \* this.browserCounter
    activeInstances,                  \* keys of this.activeInstances
    retiredInstances,                 \* keys of this.retiredInstances
    instances,                        \* id -> PuppeteerInstance fields
    browserPromise,                   \* id -> state of instance.browserPromise
    recycledDiskCacheDirs,            \* this.recycledDiskCacheDirs (FIFO)
    instanceKillerInterval,           \* the reaper interval is set
    calls,                            \* newPage calls in flight: a bag of Call
    killWaiters,                      \* id -> kill chains waiting on browserPromise
    closePending,                     \* id -> a kill chain awaits browser.close()
    killTimers,                       \* id -> pending 5s timers (captured childProcess)
    tdTimers,                         \* id -> the 1s timer of targetdestroyed is pending
    listPending,                      \* id -> reaper page listings outstanding
    destroys,                         \* destroy() calls in progress
    retires,                          \* retire(browser) calls in progress
    browsers,                         \* id -> the browser behind the handle
    disk,                             \* cache directories that exist on disk
    attributed,                       \* the instance of each newPage call, in call order
    outcomes,                         \* what callers and browsers have seen happen
    errorLog                          \* ids whose disconnected handler logged an error

vars == << maxOpenPagesPerInstance, retireInstanceAfterRequestCount, recycleDiskCache,
           launchPuppeteerOptions, limits,
           now, browserCounter, activeInstances, retiredInstances, instances,
           browserPromise, recycledDiskCacheDirs, instanceKillerInterval, calls,
           killWaiters, closePending, killTimers, tdTimers, listPending, destroys,
           retires, browsers, disk, attributed, outcomes, errorLog >>

\* The mutable state as one record, so that a handler is a function from
\* state to state and handlers compose the way the code calls them.
State ==
    [ now |-> now, browserCounter |-> browserCounter,
      activeInstances |-> activeInstances, retiredInstances |-> retiredInstances,
      instances |-> instances, browserPromise |-> browserPromise,
      recycledDiskCacheDirs |-> recycledDiskCacheDirs,
      instanceKillerInterval |-> instanceKillerInterval, calls |-> calls,
      killWaiters |-> killWaiters, closePending |-> closePending,
      killTimers |-> killTimers, tdTimers |-> tdTimers, listPending |-> listPending,
      destroys |-> destroys, retires |-> retires, browsers |-> browsers,
      disk |-> disk, attributed |-> attributed, outcomes |-> outcomes,
      errorLog |-> errorLog ]

\* new PuppeteerInstance(id, browserPromise)
PuppeteerInstance(t) ==
    [ activePages |-> 0, totalPages |-> 0, lastPageOpenedAt |-> t,
      killed |-> FALSE, childProcess |-> FALSE, recycleDiskCacheDir |-> NoDir ]

\* A browser that has not been launched.
NoBrowser ==
    [ dir |-> NoDir, connected |-> FALSE, openPages |-> 0, others |-> 0,
      workers |-> 0, closeRequested |-> FALSE, sigkill |-> FALSE,
      sigint |-> FALSE ]

Pending(p) == p \in {"mkdtemp", "launching"}

\* A newPage call in flight: its instance, the await it is at, and whether
\* destroy() had been called before it.
Call == [inst : Ids, pc : {"awaitBrowser", "awaitPage"}, afterDestroy : BOOLEAN]


Becomes(next) ==
    \E t \in {next} :
    /\ now' = t.now
    /\ browserCounter' = t.browserCounter
    /\ activeInstances' = t.activeInstances
    /\ retiredInstances' = t.retiredInstances
    /\ instances' = t.instances
    /\ browserPromise' = t.browserPromise
    /\ recycledDiskCacheDirs' = t.recycledDiskCacheDirs
    /\ instanceKillerInterval' = t.instanceKillerInterval
    /\ calls' = t.calls
    /\ killWaiters' = t.killWaiters
    /\ closePending' = t.closePending
    /\ killTimers' = t.killTimers
    /\ tdTimers' = t.tdTimers
    /\ listPending' = t.listPending
    /\ destroys' = t.destroys
    /\ retires' = t.retires
    /\ browsers' = t.browsers
    /\ disk' = t.disk
    /\ attributed' = t.attributed
    /\ outcomes' = t.outcomes
    /\ errorLog' = t.errorLog
    /\ UNCHANGED << maxOpenPagesPerInstance, retireInstanceAfterRequestCount,
                    recycleDiskCache, launchPuppeteerOptions, limits >>

\* The launchPuppeteerOptions a caller may pass: none, or an object whose
\* headless is true, false or not set and whose devtools is set or not.
NoOptions == [given |-> FALSE, headless |-> "undefined", devtools |-> FALSE]
LaunchOptions ==
    {NoOptions} \cup [given : {TRUE}, headless : {"true", "false", "undefined"},
                      devtools : BOOLEAN]
Headful == [given |-> TRUE, headless |-> "false", devtools |-> FALSE]

\* The constructor's test for the warning that recycleDiskCache is only
\* supported in headful mode.
headlessMode(o) ==
    \/ ~o.given
    \/ o.headless = "true"
    \/ (o.headless = "undefined" /\ ~o.devtools)

\* The about:blank page every browser has from launch until close.
BlankPages == 1

Max(S) == CHOOSE x \in S : \A y \in S : y <= x
Min(S) == CHOOSE x \in S : \A y \in S : x <= y

\* --------------------------------------------------------------- handlers

\* Variants of _retireInstance that the properties below must tell from the
\* code: one that leaves the instance in activeInstances, one that inserts into
\* retiredInstances without looking at activeInstances.
retireInstanceKeepsActive(s, id) ==
    IF id \notin s.activeInstances
    THEN s
    ELSE [s EXCEPT !.retiredInstances = @ \cup {id}]

retireInstanceUnguarded(s, id) ==
    [s EXCEPT !.retiredInstances = @ \cup {id},
              !.activeInstances = @ \ {id}]

\* _retireInstance(instance)
retireInstance(s, id) ==
    IF id \notin s.activeInstances
    THEN s
    ELSE [s EXCEPT !.retiredInstances = @ \cup {id},
                   !.activeInstances = @ \ {id}]

\* A variant of the closure that leaves the field set.
recycleDiskCacheDirKeepsField(s, id) ==
    IF s.instances[id].recycleDiskCacheDir = NoDir
    THEN s
    ELSE [s EXCEPT !.recycledDiskCacheDirs =
                       Append(@, s.instances[id].recycleDiskCacheDir)]

\* The closure recycleDiskCache of _killInstance.
recycleDiskCacheDir(s, id) ==
    IF s.instances[id].recycleDiskCacheDir = NoDir
    THEN s
    ELSE [s EXCEPT !.recycledDiskCacheDirs =
                       Append(@, s.instances[id].recycleDiskCacheDir),
                   !.instances[id].recycleDiskCacheDir = NoDir]

\* A variant of the chain that asks for the close without setting killed.
killChainUnflagged(s, id) ==
    IF s.instances[id].killed
    THEN recycleDiskCacheDir(s, id)
    ELSE [s EXCEPT !.browsers[id].closeRequested = TRUE,
                   !.closePending[id] = TRUE]

\* _killInstance: the chain on browserPromise once the browser is there:
\* .then(browser => { if (killed) return; killed = true; return browser.close() })
\* .then(() => recycleDiskCache()).  With killed already set the first callback
\* returns at once and the second one recycles in the same flush.
killChain(s, id) ==
    IF s.instances[id].killed
    THEN recycleDiskCacheDir(s, id)
    ELSE [s EXCEPT !.instances[id].killed = TRUE,
                   !.browsers[id].closeRequested = TRUE,
                   !.closePending[id] = TRUE]

\* _killInstance(instance), up to the callbacks it leaves behind.  The 5s
\* timer keeps the childProcess it read when the procedure started.
killInstance(s, id) ==
    LET s1 == [s EXCEPT !.retiredInstances = @ \ {id},
                        !.killTimers[id] = @ \cup {s.instances[id].childProcess}]
    IN  CASE s.browserPromise[id] = "resolved" -> killChain(s1, id)
          [] s.browserPromise[id] = "rejected" -> s1
          [] OTHER -> [s1 EXCEPT !.killWaiters[id] = @ + 1]

\* The 5s timer of _killInstance fires.
killTimerFired(s, id, childProcess) ==
    LET s1 == [s EXCEPT !.killTimers[id] = @ \ {childProcess},
                        !.browsers[id].sigkill = @ \/ childProcess]
    IN  recycleDiskCacheDir(s1, id)

\* A variant that takes the directory recycled last.
launchPuppeteerFunctionLifo(s, id) ==
    IF recycleDiskCache
    THEN IF Len(s.recycledDiskCacheDirs) > 0
         THEN [s EXCEPT !.browsers[id].dir =
                            s.recycledDiskCacheDirs[Len(s.recycledDiskCacheDirs)],
                        !.recycledDiskCacheDirs =
                            SubSeq(@, 1, Len(s.recycledDiskCacheDirs) - 1),
                        !.browserPromise[id] = "launching"]
         ELSE [s EXCEPT !.browserPromise[id] = "mkdtemp"]
    ELSE [s EXCEPT !.browserPromise[id] = "launching"]

\* this.launchPuppeteerFunction, up to its first await: with recycling a
\* directory is taken from the FIFO, or mkdtemp is awaited.
launchPuppeteerFunction(s, id) ==
    IF recycleDiskCache
    THEN IF Len(s.recycledDiskCacheDirs) > 0
         THEN [s EXCEPT !.browsers[id].dir = Head(s.recycledDiskCacheDirs),
                        !.recycledDiskCacheDirs = Tail(@),
                        !.browserPromise[id] = "launching"]
         ELSE [s EXCEPT !.browserPromise[id] = "mkdtemp"]
    ELSE [s EXCEPT !.browserPromise[id] = "launching"]

\* _launchInstance()
launchInstance(s) ==
    LET id == s.browserCounter
        s1 == launchPuppeteerFunction([s EXCEPT !.browserCounter = @ + 1], id)
    IN  [s1 EXCEPT !.instances[id] = PuppeteerInstance(s.now),
                   !.activeInstances = @ \cup {id}]

\* Variants of the scan: one that accepts a full instance, one that also
\* looks at retired instances.
eligibleWhenFull(s) ==
    {i \in s.activeInstances : s.instances[i].activePages <= maxOpenPagesPerInstance}

eligibleRetired(s) ==
    {i \in s.activeInstances \cup s.retiredInstances :
        s.instances[i].activePages < maxOpenPagesPerInstance}

\* newPage: the instances the scan accepts.
eligible(s) ==
    {i \in s.activeInstances : s.instances[i].activePages < maxOpenPagesPerInstance}

\* newPage: _.mapObject visits the keys in ascending order and the last
\* accepted instance wins.
selectInstance(s) ==
    IF eligible(s) = {} THEN NoInstance ELSE Max(eligible(s))

\* A variant of the catch block that only rethrows.
newPageFailedKeepsActive(s, c) ==
    [s EXCEPT !.calls[c] = @ - 1]

\* newPage: the catch block of the call c; the error goes to the caller.
newPageFailed(s, c) ==
    [retireInstance(s, c.inst) EXCEPT !.calls[c] = @ - 1]

\* A variant of the cap test that lets the instance serve one page more.
retireDueLate(s, id) ==
    s.instances[id].totalPages > retireInstanceAfterRequestCount

\* newPage: the test after the counters were incremented.
retireDue(s, id) ==
    s.instances[id].totalPages >= retireInstanceAfterRequestCount

\* newPage() up to its first await; a browserPromise that is already
\* settled lets the call go on in the same flush.
newPage(s) ==
    LET sel == selectInstance(s)
        s1 == IF sel = NoInstance THEN launchInstance(s) ELSE s
        id == IF sel = NoInstance THEN s.browserCounter ELSE sel
        s2 == [s1 EXCEPT !.instances[id].lastPageOpenedAt = s1.now,
                         !.instances[id].totalPages = @ + 1,
                         !.instances[id].activePages = @ + 1]
        s3 == IF retireDue(s2, id)
              THEN retireInstance(s2, id) ELSE s2
        c == [inst |-> id, pc |-> "awaitBrowser",
              afterDestroy |-> ~s.instanceKillerInterval]
        a == [inst |-> id, afterDestroy |-> c.afterDestroy]
        s4 == [s3 EXCEPT !.calls[c] = @ + 1, !.attributed = Append(@, a)]
    IN  CASE s4.browserPromise[id] = "resolved" ->
                 [s3 EXCEPT !.calls[[c EXCEPT !.pc = "awaitPage"]] = @ + 1,
                            !.attributed = Append(@, a)]
          [] s4.browserPromise[id] = "rejected" -> newPageFailed(s4, c)
          [] OTHER -> s4


killInstanceAfterMillis == KillAfterTicks

\* _killRetiredInstances: the instance has been idle for too long.
idle(s, id) ==
    s.now - s.instances[id].lastPageOpenedAt > killInstanceAfterMillis

\* A variant of the callback without the idle test.
reapInstanceByListing(s, id) ==
    IF s.browserPromise[id] = "rejected"
    THEN killInstance(s, id)
    ELSE [s EXCEPT !.listPending[id] = @ + 1]

\* _killRetiredInstances: the callback for one retired instance.  The page
\* listing waits for browserPromise; a rejected one fails it at once.
reapInstance(s, id) ==
    IF idle(s, id)
    THEN killInstance(s, id)
    ELSE IF s.browserPromise[id] = "rejected"
         THEN killInstance(s, id)
         ELSE [s EXCEPT !.listPending[id] = @ + 1]

RECURSIVE reapAll(_, _)
reapAll(s, todo) ==
    IF todo = {} THEN s
    ELSE reapAll(reapInstance(s, Min(todo)), todo \ {Min(todo)})

\* A variant of the reaper that also visits the active instances.
killAllInstancesOnTick(s) == reapAll(s, s.activeInstances \cup s.retiredInstances)

\* _killRetiredInstances()
killRetiredInstances(s) == reapAll(s, s.retiredInstances)

\* A variant of the callbacks that also kills a browser with two pages.
pagesListedEager(s, id, ok, pages) ==
    LET s1 == [s EXCEPT !.listPending[id] = @ - 1]
    IN  IF ok
        THEN IF pages <= 2 THEN killInstance(s1, id) ELSE s1
        ELSE killInstance(s1, id)

\* _killRetiredInstances: the two callbacks of browser.pages().
pagesListed(s, id, ok, pages) ==
    LET s1 == [s EXCEPT !.listPending[id] = @ - 1]
    IN  IF ok
        THEN IF pages <= 1 THEN killInstance(s1, id) ELSE s1
        ELSE killInstance(s1, id)

\* A variant of the handler that counts targets of every type.
targetDestroyedAnyType(s, id, type) ==
    LET s1 == [s EXCEPT !.instances[id].activePages = @ - 1]
    IN  IF s1.instances[id].activePages = 0 /\ id \in s1.retiredInstances
        THEN [s1 EXCEPT !.tdTimers[id] = TRUE]
        ELSE s1

\* browser.on('targetdestroyed', ...)
targetDestroyed(s, id, type) ==
    IF type # "page" /\ type # "other"
    THEN s
    ELSE LET s1 == [s EXCEPT !.instances[id].activePages = @ - 1]
         IN  IF s1.instances[id].activePages = 0 /\ id \in s1.retiredInstances
             THEN [s1 EXCEPT !.tdTimers[id] = TRUE]
             ELSE s1

\* The 1s timer set by the targetdestroyed handler fires.
pageCloseTimerFired(s, id) ==
    killInstance([s EXCEPT !.tdTimers[id] = FALSE], id)

\* A variant of the handler that logs whatever the killed flag says.
disconnectedLogsAlways(s, id) ==
    retireInstance([s EXCEPT !.errorLog = @ \cup {id}], id)

\* browser.on('disconnected', ...): the error is logged unless the pool
\* killed the instance.
disconnected(s, id) ==
    LET s1 == IF ~s.instances[id].killed
              THEN [s EXCEPT !.errorLog = @ \cup {id}] ELSE s
    IN  retireInstance(s1, id)

\* A variant of _killAllInstances that leaves the retired instances out.
killAllInstancesActiveOnly(s) ==
    [s EXCEPT !.browsers = [i \in Ids |->
        IF i \in s.activeInstances
        THEN [@[i] EXCEPT !.sigint = @ \/ s.instances[i].childProcess]
        ELSE @[i]]]

\* _killAllInstances(): SIGINT goes to the child process of every instance
\* in the two maps; for an instance without childProcess the call throws and
\* the error is caught.
killAllInstances(s) ==
    [s EXCEPT !.browsers = [i \in Ids |->
        IF i \in s.activeInstances \cup s.retiredInstances
        THEN [@[i] EXCEPT !.sigint = @ \/ s.instances[i].childProcess]
        ELSE @[i]]]

\* The process receives SIGINT: sigintListener runs if it is registered
\* (destroy removes it together with the reaper interval).
sigint(s) ==
    IF s.instanceKillerInterval THEN killAllInstances(s) ELSE s

\* destroy(): what it does to one instance whose browser is there:
\* browser.close() is requested, also of a browser that was asked to close
\* before, and the browser's cache directory deleted.
destroyChain(s, id) ==
    [s EXCEPT !.browsers[id].closeRequested = TRUE,
              !.disk = @ \ {s.browsers[id].dir},
              !.outcomes = @ \cup (IF s.browsers[id].closeRequested
                                    THEN {"close repeated"} ELSE {})]

RECURSIVE destroyChains(_, _)
destroyChains(s, todo) ==
    IF todo = {} THEN s
    ELSE destroyChains(destroyChain(s, Min(todo)), todo \ {Min(todo)})

\* destroy() up to the promises it waits for.  A rejected browserPromise
\* rejects Promise.all: the final catch logs it, the completion resolves and
\* the directories of the FIFO are not deleted.  A call stays in destroys
\* while a chain of it waits for a browser or its last callback is due.
destroy(s) ==
    LET snap == s.activeInstances \cup s.retiredInstances
        s1 == [s EXCEPT !.instanceKillerInterval = FALSE,
                        !.instances = [i \in Ids |->
                            IF i \in snap THEN [@[i] EXCEPT !.killed = TRUE] ELSE @[i]]]
        s2 == destroyChains(s1, {i \in snap : s.browserPromise[i] = "resolved"})
        d == [wait |-> {i \in snap : Pending(s.browserPromise[i])},
              status |-> IF \E i \in snap : s.browserPromise[i] = "rejected"
                         THEN "failed" ELSE "closing"]
        s3 == IF d.status = "failed"
              THEN [s2 EXCEPT !.outcomes = @ \cup {"destroy resolved"}] ELSE s2
    IN  IF d.status = "failed" /\ d.wait = {}
        THEN s3
        ELSE [s3 EXCEPT !.destroys = @ \cup {d}]

RECURSIVE SeqToSet(_)
SeqToSet(q) == IF q = << >> THEN {} ELSE {Head(q)} \cup SeqToSet(Tail(q))

\* destroy(): the callback after Promise.all(closePromises); the completion
\* resolves.
destroyDrain(s, d) ==
    [s EXCEPT !.disk = @ \ SeqToSet(s.recycledDiskCacheDirs),
              !.recycledDiskCacheDirs = << >>,
              !.destroys = @ \ {d},
              !.outcomes = @ \cup {"destroy resolved"}]

\* retire(browser): the callback after _findInstanceByBrowser, which found
\* the instance of snap whose browser is the argument, or none.
retireFound(s, r) ==
    IF r.arg \in r.snap THEN retireInstance(s, r.arg) ELSE s

\* retire(browser) with _findInstanceByBrowser, up to the promises
\* Promise.filter waits for.  A call stays in retires while it waits.
retire(s, browser) ==
    LET r == [arg |-> browser, snap |-> s.activeInstances,
              wait |-> {i \in s.activeInstances : Pending(s.browserPromise[i])}]
    IN  IF r.wait = {} THEN retireFound(s, r) ELSE [s EXCEPT !.retires = @ \cup {r}]


\* ------------------------------------------- settling of browserPromise

RECURSIVE killChains(_, _, _)
killChains(s, id, n) ==
    IF n = 0 THEN s ELSE killChains(killChain(s, id), id, n - 1)

RECURSIVE killInstances(_, _, _)
killInstances(s, id, n) ==
    IF n = 0 THEN s ELSE killInstances(killInstance(s, id), id, n - 1)

\* destroy(): the chains of the destroy() calls that waited for this browser.
destroysResolved(s, id) ==
    LET waiting == {d \in s.destroys : id \in d.wait}
        left == {[d EXCEPT !.wait = @ \ {id}] : d \in waiting}
        s1 == IF waiting = {} THEN s ELSE destroyChain(s, id)
    IN  [s1 EXCEPT !.destroys = (@ \ waiting) \cup
                       {d \in left : d.status = "closing" \/ d.wait # {}}]

\* retire(): the calls whose Promise.filter waited for this browser.
RECURSIVE retiresFound(_, _)
retiresFound(s, done) ==
    IF done = {} THEN s
    ELSE LET r == CHOOSE x \in done : TRUE
         IN  retiresFound(retireFound(s, r), done \ {r})

retiresResolved(s, id) ==
    LET waiting == {r \in s.retires : id \in r.wait}
        left == {[r EXCEPT !.wait = @ \ {id}] : r \in waiting}
        s1 == [s EXCEPT !.retires = (@ \ waiting) \cup {r \in left : r.wait # {}}]
    IN  retiresFound(s1, {r \in left : r.wait = {}})

\* launchPuppeteerFunction returns the browser: the first callback on
\* browserPromise (_launchInstance) records childProcess and the cache
\* directory, then the continuations waiting for the browser run.
launchResolved(s, id) ==
    LET s1 == [s EXCEPT !.browserPromise[id] = "resolved",
                        !.browsers[id].connected = TRUE,
                        !.browsers[id].others = limits.others,
                        !.browsers[id].workers = limits.workers,
                        !.instances[id].childProcess = TRUE,
                        !.instances[id].recycleDiskCacheDir = s.browsers[id].dir]
        s2 == [s1 EXCEPT !.calls = [c \in Call |->
                  CASE c.inst = id /\ c.pc = "awaitBrowser" -> 0
                    [] c.inst = id /\ c.pc = "awaitPage" ->
                           @[c] + @[[c EXCEPT !.pc = "awaitBrowser"]]
                    [] OTHER -> @[c]]]
        s3 == killChains([s2 EXCEPT !.killWaiters[id] = 0], id, s2.killWaiters[id])
        s4 == destroysResolved(s3, id)
    IN  retiresResolved(s4, id)

\* The calls waiting for the browser of id take their catch block.
RECURSIVE callsRejected(_, _)
callsRejected(s, id) ==
    IF \E c \in Call : c.inst = id /\ c.pc = "awaitBrowser" /\ s.calls[c] > 0
    THEN callsRejected(
             newPageFailed(s, CHOOSE c \in Call :
                 c.inst = id /\ c.pc = "awaitBrowser" /\ s.calls[c] > 0), id)
    ELSE s

\* mkdtemp or the launcher fails: every continuation waiting for the browser
\* takes its error path, and the catch of _launchInstance retires the instance.
launchRejected(s, id) ==
    LET s1 == [s EXCEPT !.browserPromise[id] = "rejected"]
        s2 == callsRejected(s1, id)
        s3 == retireInstance(s2, id)
        s4 == killInstances([s3 EXCEPT !.killWaiters[id] = 0, !.listPending[id] = 0],
                            id, s3.listPending[id])
    IN  [s4 EXCEPT
            !.destroys = {d \in @ : id \notin d.wait} \cup
                {[wait |-> d.wait \ {id}, status |-> "failed"] :
                     d \in {x \in @ : id \in x.wait /\ x.wait # {id}}},
            !.retires = {r \in @ : id \notin r.wait},
            !.outcomes = @ \cup
                (IF \E d \in s.destroys : id \in d.wait /\ d.status = "closing"
                 THEN {"destroy resolved"} ELSE {}) \cup
                (IF \E r \in s.retires : id \in r.wait
                 THEN {"retire rejected"} ELSE {})]

\* mkdtempAsync(DISK_CACHE_DIR) creates a directory with a fresh name: the
\* model names it after the instance it is created for.
mkdtempDone(s, id) ==
    [s EXCEPT !.disk = @ \cup {id + 1},
              !.browsers[id].dir = id + 1,
              !.browserPromise[id] = "launching"]

\* ---------------------------------------------------------------- actions

Start ==
    /\ now = 0
    /\ browserCounter = 0
    /\ activeInstances = {}
    /\ retiredInstances = {}
    /\ instances = [i \in Ids |-> PuppeteerInstance(0)]
    /\ browserPromise = [i \in Ids |-> "none"]
    /\ recycledDiskCacheDirs = << >>
    /\ instanceKillerInterval = TRUE
    /\ calls = [c \in Call |-> 0]
    /\ killWaiters = [i \in Ids |-> 0]
    /\ closePending = [i \in Ids |-> FALSE]
    /\ killTimers = [i \in Ids |-> {}]
    /\ tdTimers = [i \in Ids |-> FALSE]
    /\ listPending = [i \in Ids |-> 0]
    /\ destroys = {}
    /\ retires = {}
    /\ browsers = [i \in Ids |-> NoBrowser]
    /\ disk = {}
    /\ attributed = << >>
    /\ outcomes = {}
    /\ errorLog = {}

\* One browser at a time, under every combination of the options.
Init ==
    /\ maxOpenPagesPerInstance \in {0, 1, 2}
    /\ retireInstanceAfterRequestCount \in {2, 3}
    /\ recycleDiskCache \in BOOLEAN
    /\ launchPuppeteerOptions = Headful
    /\ limits = [instances |-> MaxInstances - 2, calls |-> MaxCalls,
                 others |-> MaxOtherTargets,
                 workers |-> MaxWorkerTargets - 1]
    /\ Start

\* Two browsers side by side, one page each, without cache recycling and
\* without targets of type other.
InitPair ==
    /\ maxOpenPagesPerInstance = 1
    /\ retireInstanceAfterRequestCount = 2
    /\ recycleDiskCache = FALSE
    /\ launchPuppeteerOptions = Headful
    /\ limits = [instances |-> MaxInstances - 1, calls |-> MaxCalls - 1,
                 others |-> MaxOtherTargets - 1,
                 workers |-> MaxWorkerTargets - 1]
    /\ Start

\* A caller calls newPage().
NewPage ==
    /\ Len(attributed) < limits.calls
    /\ eligible(State) = {} => browserCounter < limits.instances
    /\ Becomes(newPage(State))

\* mkdtemp completes.
MkdtempDone ==
    \E i \in Ids :
        /\ browserPromise[i] = "mkdtemp"
        /\ Becomes(mkdtempDone(State, i))

\* The launcher returns a browser.
LaunchResolved ==
    \E i \in Ids :
        /\ browserPromise[i] = "launching"
        /\ Becomes(launchResolved(State, i))

\* mkdtemp or the launcher fails.
LaunchRejected ==
    \E i \in Ids :
        /\ Pending(browserPromise[i])
        /\ Becomes(launchRejected(State, i))

\* browser.newPage() of a call returns a page.
PageCreated ==
    \E c \in Call :
        /\ c.pc = "awaitPage"
        /\ calls[c] > 0
        /\ browsers[c.inst].connected
        /\ ~browsers[c.inst].closeRequested
        /\ Becomes([State EXCEPT !.calls[c] = @ - 1,
                                 !.browsers[c.inst].openPages = @ + 1])

\* browser.newPage() of a call fails.
PageFailed ==
    \E c \in Call :
        /\ c.pc = "awaitPage"
        /\ calls[c] > 0
        /\ Becomes(newPageFailed(State, c))

\* A target of the browser goes away: a page that newPage returned (type
\* page), a target the pool did not open (type other), or a service worker.
TargetDestroyed ==
    \E i \in Ids, type \in {"page", "other", "service_worker"} :
        /\ browsers[i].connected
        /\ type = "page" => browsers[i].openPages > 0
        /\ type = "other" => browsers[i].others > 0
        /\ type = "service_worker" => browsers[i].workers > 0
        /\ LET s1 == [State EXCEPT
                        !.browsers[i].openPages = IF type = "page" THEN @ - 1 ELSE @,
                        !.browsers[i].others = IF type = "other" THEN @ - 1 ELSE @,
                        !.browsers[i].workers =
                            IF type = "service_worker" THEN @ - 1 ELSE @]
           IN  Becomes(targetDestroyed(s1, i, type))

\* The browser disconnects: it crashed, was closed or its process was
\* killed.  Its targets are gone with it.
Disconnected ==
    \E i \in Ids :
        /\ browsers[i].connected
        /\ Becomes(disconnected([State EXCEPT !.browsers[i].connected = FALSE,
                                              !.browsers[i].openPages = 0,
                                              !.browsers[i].others = 0,
                                              !.browsers[i].workers = 0], i))

\* The reaper interval fires.
ReaperTick ==
    /\ instanceKillerInterval
    /\ \A i \in retiredInstances :
           idle(State, i) \/ browserPromise[i] = "rejected"
               \/ listPending[i] < MaxListings
    /\ Becomes(killRetiredInstances(State))

\* browser.pages() of a reaper listing settles.
PagesListed ==
    \E i \in Ids :
        /\ browserPromise[i] = "resolved"
        /\ listPending[i] > 0
        /\ Becomes(pagesListed(State, i, browsers[i].connected,
                       browsers[i].openPages + BlankPages))

\* The 1s timer of the targetdestroyed handler fires.
PageCloseTimer ==
    \E i \in Ids :
        /\ tdTimers[i]
        /\ Becomes(pageCloseTimerFired(State, i))

\* A 5s timer of the kill procedure fires.
KillTimer ==
    \E i \in Ids, cp \in BOOLEAN :
        /\ cp \in killTimers[i]
        /\ Becomes(killTimerFired(State, i, cp))

\* browser.close() requested by the kill procedure resolves.
CloseResolved ==
    \E i \in Ids :
        /\ closePending[i]
        /\ ~browsers[i].connected
        /\ Becomes(recycleDiskCacheDir([State EXCEPT !.closePending[i] = FALSE], i))

\* browser.close() requested by the kill procedure fails; the error is logged.
CloseRejected ==
    \E i \in Ids :
        /\ closePending[i]
        /\ Becomes([State EXCEPT !.closePending[i] = FALSE])

\* A caller calls retire(browser) with a browser the pool launched, or with
\* a browser that is not or no longer in the pool.
Retire ==
    \E b \in Ids \cup {NoInstance} :
        /\ Cardinality(retires) < MaxRetires
        /\ b \in Ids => browserPromise[b] = "resolved"
        /\ Becomes(retire(State, b))

\* A caller calls destroy().
Destroy ==
    /\ Cardinality(destroys) < MaxDestroys
    /\ Becomes(destroy(State))

\* All browsers of a destroy() call are there and closed.
DestroyDrain ==
    \E d \in destroys :
        /\ d.status = "closing"
        /\ d.wait = {}
        /\ Becomes(destroyDrain(State, d))

\* Time passes.
Tick ==
    /\ now < MaxClock
    /\ Becomes([State EXCEPT !.now = @ + 1])

Next ==
    \/ NewPage
    \/ MkdtempDone
    \/ LaunchResolved
    \/ LaunchRejected
    \/ PageCreated
    \/ PageFailed
    \/ TargetDestroyed
    \/ Disconnected
    \/ ReaperTick
    \/ PagesListed
    \/ PageCloseTimer
    \/ KillTimer
    \/ CloseResolved
    \/ CloseRejected
    \/ Retire
    \/ Destroy
    \/ DestroyDrain
    \/ Tick

Spec == Init /\ [][Next]_vars

\* Without cache recycling mkdtemp is never called.
NextNoCache ==
    \/ NewPage
    \/ LaunchResolved
    \/ LaunchRejected
    \/ PageCreated
    \/ PageFailed
    \/ TargetDestroyed
    \/ Disconnected
    \/ ReaperTick
    \/ PagesListed
    \/ PageCloseTimer
    \/ KillTimer
    \/ CloseResolved
    \/ CloseRejected
    \/ Retire
    \/ Destroy
    \/ DestroyDrain
    \/ Tick

SpecPair == InitPair /\ [][NextNoCache]_vars

\* The saturation scenario: maxOpenPagesPerInstance = 2 and three newPage
\* calls on two browsers, on a pool that is not reaped and not destroyed.
InitSaturation ==
    /\ maxOpenPagesPerInstance = 2
    /\ retireInstanceAfterRequestCount \in {3, 4}
    /\ recycleDiskCache \in BOOLEAN
    /\ launchPuppeteerOptions = Headful
    /\ limits = [instances |-> MaxInstances - 1, calls |-> MaxCalls,
                 others |-> MaxOtherTargets,
                 workers |-> MaxWorkerTargets - 1]
    /\ Start

NextSaturation ==
    \/ NewPage
    \/ MkdtempDone
    \/ LaunchResolved
    \/ LaunchRejected
    \/ PageCreated
    \/ PageFailed
    \/ TargetDestroyed
    \/ Disconnected
    \/ Retire
    \/ Tick

SpecSaturation == InitSaturation /\ [][NextSaturation]_vars

\* recycleDiskCache is set on a pool whose launch options are headless.
InitHeadless ==
    /\ maxOpenPagesPerInstance = 1
    /\ retireInstanceAfterRequestCount = 2
    /\ recycleDiskCache = TRUE
    /\ launchPuppeteerOptions \in {o \in LaunchOptions : headlessMode(o)}
    /\ limits = [instances |-> MaxInstances - 2, calls |-> MaxCalls - 1,
                 others |-> MaxOtherTargets - 1,
                 workers |-> MaxWorkerTargets - 1]
    /\ Start

SpecHeadless == InitHeadless /\ [][Next]_vars

\* Three browsers with cache recycling, one page each: launches and their
\* failures, crashes, the reaper with the kill procedure, and destroy.
InitRecycle ==
    /\ maxOpenPagesPerInstance = 1
    /\ retireInstanceAfterRequestCount = 2
    /\ recycleDiskCache = TRUE
    /\ launchPuppeteerOptions = Headful
    /\ limits = [instances |-> MaxInstances, calls |-> MaxCalls,
                 others |-> MaxOtherTargets - 1,
                 workers |-> MaxWorkerTargets - 1]
    /\ Start

NextRecycle ==
    \/ NewPage
    \/ MkdtempDone
    \/ LaunchResolved
    \/ LaunchRejected
    \/ Disconnected
    \/ ReaperTick
    \/ PagesListed
    \/ KillTimer
    \/ CloseResolved
    \/ Destroy
    \/ DestroyDrain
    \/ Tick

SpecRecycle == InitRecycle /\ [][NextRecycle]_vars

\* Two browsers with cache recycling on a pool that is not destroyed, whose
\* clock goes on after the last newPage call until the idle limit has passed,
\* and whose reaper interval keeps firing.
InitLive ==
    /\ maxOpenPagesPerInstance = 1
    /\ retireInstanceAfterRequestCount = 2
    /\ recycleDiskCache = TRUE
    /\ launchPuppeteerOptions = Headful
    /\ limits = [instances |-> MaxInstances - 1, calls |-> MaxCalls - 1,
                 others |-> MaxOtherTargets - 1,
                 workers |-> MaxWorkerTargets - 1]
    /\ Start

NewPageEarly ==
    /\ now + killInstanceAfterMillis < MaxClock
    /\ NewPage

NextLive ==
    \/ NewPageEarly
    \/ MkdtempDone
    \/ LaunchResolved
    \/ LaunchRejected
    \/ PageCreated
    \/ PageFailed
    \/ TargetDestroyed
    \/ Disconnected
    \/ ReaperTick
    \/ PagesListed
    \/ PageCloseTimer
    \/ KillTimer
    \/ CloseResolved
    \/ CloseRejected
    \/ Retire
    \/ Tick

SpecLive ==
    /\ InitLive
    /\ [][NextLive]_vars
    /\ WF_vars(Tick)
    /\ WF_vars(ReaperTick)

\* The process receives SIGINT.
Sigint == Becomes(sigint(State))

\* Two browsers without cache recycling on a process that is interrupted:
\* launches, pages, crashes, the reaper with the kill procedure, and destroy.
NextInterrupt ==
    \/ NewPage
    \/ LaunchResolved
    \/ LaunchRejected
    \/ PageCreated
    \/ Disconnected
    \/ ReaperTick
    \/ PagesListed
    \/ KillTimer
    \/ CloseResolved
    \/ Destroy
    \/ DestroyDrain
    \/ Tick
    \/ Sigint

SpecInterrupt == InitPair /\ [][NextInterrupt]_vars

\* One browser that starts with a target of type other and a service
\* worker, with room for two pages, without cache recycling.
InitTargets ==
    /\ maxOpenPagesPerInstance = 2
    /\ retireInstanceAfterRequestCount \in {2, 3}
    /\ recycleDiskCache = FALSE
    /\ launchPuppeteerOptions = Headful
    /\ limits = [instances |-> MaxInstances - 2, calls |-> MaxCalls,
                 others |-> MaxOtherTargets, workers |-> MaxWorkerTargets]
    /\ Start

SpecTargets == InitTargets /\ [][NextNoCache]_vars

\* -------------------------------------------------------------- properties

\* C1: at every moment no instance id is in activeInstances and in
\* retiredInstances at the same time.
DisjointMaps == activeInstances \cap retiredInstances = {}

\* One browser retired (it disconnected) while the other one is active.
DisjointMapsWitness ==
    /\ 0 \in retiredInstances
    /\ browserPromise[0] = "resolved"
    /\ ~browsers[0].connected
    /\ 1 \in activeInstances

\* C2: an instance that has left activeInstances never re-enters it, and an
\* instance that is in neither map any more (the kill procedure or destroy
\* removed it) is never put back into retiredInstances, whatever retire step
\* reaches it later.
OneWay ==
    [][\A i \in Ids :
          /\ (i < browserCounter /\ i \notin activeInstances)
                 => i \notin activeInstances'
          /\ (i < browserCounter /\ i \notin activeInstances
                 /\ i \notin retiredInstances)
                 => i \notin retiredInstances']_vars

\* The kill procedure removed the instance while its launch was pending (its
\* timer captured no childProcess); the browser arrived later and has
\* disconnected since, so the disconnected handler called the retire step on
\* an instance that was in neither map.
OneWayWitness ==
    \E i \in Ids :
        /\ i < browserCounter
        /\ i \notin activeInstances \cup retiredInstances
        /\ FALSE \in killTimers[i]
        /\ browserPromise[i] = "resolved"
        /\ ~browsers[i].connected

\* C3: no instance in activeInstances has totalPages at or above
\* retireInstanceAfterRequestCount: the call that reaches the cap retires the
\* instance in the same step.
ActiveBelowCap ==
    \A i \in activeInstances :
        instances[i].totalPages < retireInstanceAfterRequestCount

\* An instance at the cap is retired while its browser is still being
\* launched: only the cap test of newPage can have retired it.
ActiveBelowCapWitness ==
    \E i \in retiredInstances :
        /\ instances[i].totalPages = retireInstanceAfterRequestCount
        /\ browserPromise[i] = "launching"

\* newPage calls made after destroy() was called.
CallsAfterDestroy == {k \in 1 .. Len(attributed) : attributed[k].afterDestroy}

\* C4: after destroy has been called, no later newPage call launches a
\* browser instance and no later newPage call returns a page.
NoAllocationAfterDestroy ==
    [][/\ ~instanceKillerInterval => browserCounter' = browserCounter
       /\ \A c \in Call :
              (c.afterDestroy /\ c.pc = "awaitPage" /\ calls'[c] < calls[c])
                  => browsers'[c.inst].openPages = browsers[c.inst].openPages]_vars

\* C5: with cache recycling enabled, once the completion of a destroy() call
\* has resolved no cache directory the pool created is left on disk (stated
\* for pools on which newPage was not called after destroy).
CacheDirsDeleted ==
    (recycleDiskCache /\ "destroy resolved" \in outcomes /\ CallsAfterDestroy = {})
        => disk = {}

\* C6: the completion of retire(browser) and of destroy() is never rejected.
NeverRejected ==
    outcomes \cap {"retire rejected", "destroy rejected"} = {}

\* C7: a retired instance with pages of newPage still open is not killed (it
\* stays in retiredInstances and no close of its browser is requested) unless
\* more than killInstanceAfterMillis has passed since lastPageOpenedAt (stated
\* for pools on which destroy was not called).
DrainingSurvives ==
    [][\A i \in retiredInstances :
          (/\ browsers[i].openPages > 0
           /\ now - instances[i].lastPageOpenedAt <= killInstanceAfterMillis
           /\ instanceKillerInterval')
              => (i \in retiredInstances' /\ ~browsers'[i].closeRequested)]_vars

\* C8: totalPages and lastPageOpenedAt of an instance never change while it
\* is in retiredInstances, and a step that increments the counters of an
\* instance finds it in activeInstances or launches it.
RetiredNeverAllocated ==
    [][\A i \in Ids :
          /\ i \in retiredInstances =>
                 /\ instances'[i].totalPages = instances[i].totalPages
                 /\ instances'[i].lastPageOpenedAt = instances[i].lastPageOpenedAt
          /\ instances'[i].totalPages # instances[i].totalPages =>
                 (i \in activeInstances \/ i = browserCounter)]_vars

\* Instance 0 is retired with room for a page and its browser runs, and the
\* second newPage call went to a new instance 1.
RetiredNeverAllocatedWitness ==
    /\ 0 \in retiredInstances
    /\ browsers[0].connected
    /\ instances[0].activePages < maxOpenPagesPerInstance
    /\ Len(attributed) = 2
    /\ attributed[2].inst = 1
    /\ instances[1].lastPageOpenedAt > instances[0].lastPageOpenedAt

\* The calls attributed to instance i.
CallsOn(i) == {k \in 1 .. Len(attributed) : attributed[k].inst = i}

\* No instance was retired and no page was closed so far.
Undisturbed ==
    /\ retiredInstances = {}
    /\ activeInstances = 0 .. (browserCounter - 1)
    /\ \A i \in activeInstances : instances[i].activePages = Cardinality(CallsOn(i))

\* C9: a newPage call launches an instance iff no instance of
\* activeInstances has activePages < maxOpenPagesPerInstance when it selects;
\* so with maxOpenPagesPerInstance = 2, after three calls with no retirement
\* and no page closed, there were two launches, the first two calls are on
\* instance 0 and the third on instance 1.
LaunchIffSaturated ==
    /\ [][Len(attributed') = Len(attributed) + 1 =>
             ((browserCounter' = browserCounter + 1) <=>
                  (\A i \in activeInstances :
                       instances[i].activePages >= maxOpenPagesPerInstance))]_vars
    /\ []((maxOpenPagesPerInstance = 2 /\ Len(attributed) = 3 /\ Undisturbed) =>
             /\ browserCounter = 2
             /\ attributed[1].inst = 0
             /\ attributed[2].inst = 0
             /\ attributed[3].inst = 1)

\* Three calls were made, none of them has its page yet, and no instance was
\* retired: instance 0 has two of them and instance 1 one.
LaunchIffSaturatedWitness ==
    /\ Len(attributed) = 3
    /\ Undisturbed
    /\ browserCounter = 2
    /\ instances[0].activePages = 2
    /\ instances[1].activePages = 1
    /\ \A i \in 0 .. 1 : Pending(browserPromise[i])

\* C10 as stated: for every instance in activeInstances,
\* activePages <= maxOpenPagesPerInstance.
ActiveWithinMax ==
    \A i \in activeInstances :
        instances[i].activePages <= maxOpenPagesPerInstance

\* C10, for maxOpenPagesPerInstance >= 1: for every instance in
\* activeInstances, activePages <= maxOpenPagesPerInstance, also while
\* several newPage calls are in flight.
ActiveWithinPositiveMax ==
    maxOpenPagesPerInstance >= 1 => ActiveWithinMax

\* Two concurrent newPage calls wait for the browser of an active instance
\* that is full.
ActiveWithinPositiveMaxWitness ==
    \E i \in activeInstances :
        /\ maxOpenPagesPerInstance = 2
        /\ instances[i].activePages = maxOpenPagesPerInstance
        /\ calls[[inst |-> i, pc |-> "awaitBrowser", afterDestroy |-> FALSE]] = 2

\* C11: activePages of every instance is >= 0, whatever targets are destroyed.
ActivePagesNonNegative ==
    \A i \in Ids : instances[i].activePages >= 0

\* newPage calls on instance i that have not completed.
InFlight(i) ==
    calls[[inst |-> i, pc |-> "awaitBrowser", afterDestroy |-> FALSE]]
    + calls[[inst |-> i, pc |-> "awaitBrowser", afterDestroy |-> TRUE]]
    + calls[[inst |-> i, pc |-> "awaitPage", afterDestroy |-> FALSE]]
    + calls[[inst |-> i, pc |-> "awaitPage", afterDestroy |-> TRUE]]

\* C12: when a newPage call ends with an error (a call on the instance
\* completes in a step that opens no page), the instance is not in
\* activeInstances after that step; and when a launch is rejected its
\* instance is not in activeInstances after that step.
FailureRetires ==
    [][\A i \in Ids :
          /\ (InFlight(i)' < InFlight(i)
                 /\ browsers'[i].openPages <= browsers[i].openPages)
                => i \notin activeInstances'
          /\ (browserPromise[i] # "rejected" /\ browserPromise'[i] = "rejected")
                => i \notin activeInstances']_vars

\* The only call on the instance has ended without a page (activePages was
\* not taken back and no page was ever open) while the browser runs and the
\* cap is not reached: the catch block of newPage retired the instance.
FailureRetiresWitness ==
    \E i \in retiredInstances :
        /\ browsers[i].connected
        /\ Len(attributed) = 1
        /\ InFlight(i) = 0
        /\ instances[i].totalPages = 1
        /\ instances[i].activePages = 1
        /\ browsers[i].openPages = 0
        /\ browsers[i].others = limits.others
        /\ retires = {}

\* C13: with recycleDiskCache set and headless launch options, recycling is
\* off: no cache directory is created or passed to a launch, and nothing is
\* ever in the FIFO.
HeadlessDisablesRecycling ==
    (recycleDiskCache /\ headlessMode(launchPuppeteerOptions)) =>
        /\ disk = {}
        /\ recycledDiskCacheDirs = << >>
        /\ \A i \in Ids : browsers[i].dir = NoDir /\ browserPromise[i] # "mkdtemp"

\* The retire(browser) call r completes in this step.
Completes(r) ==
    /\ r \in retires
    /\ ~\E q \in retires' : q.arg = r.arg /\ q.snap = r.snap /\ q.wait \subseteq r.wait

\* C14: retire(browser) moves the active instance of that browser to
\* retiredInstances: when the call completes the instance is not in
\* activeInstances, and a call for a browser that is not in activeInstances
\* moves nothing.
RetireMoves ==
    [][\A r \in retires :
          Completes(r) =>
              /\ r.arg \in Ids => r.arg \notin activeInstances'
              /\ \A i \in Ids \ {r.arg} :
                     (i \in activeInstances /\ browserPromise'[i] = "resolved")
                         => i \in activeInstances']_vars

\* C15: a second destroy() asks no browser to close that an earlier destroy()
\* has asked already: no close request is repeated.
SecondDestroyNoOp ==
    "close repeated" \notin outcomes

\* C16: when the completion of destroy() resolves, no directory that is in
\* the FIFO of recycled directories is left on disk.
DestroyDrainsFifo ==
    [][("destroy resolved" \notin outcomes /\ "destroy resolved" \in outcomes')
          => SeqToSet(recycledDiskCacheDirs') \cap disk' = {}]_vars

\* C17: with recycling, a launch with a non-empty FIFO takes its head (the
\* directory recycled first), removes exactly that entry and creates no
\* directory; a launch with an empty FIFO calls mkdtemp, and a directory
\* appears on disk only that way and is a new one.
FifoLaunch ==
    [][/\ (recycleDiskCache /\ browserCounter' = browserCounter + 1) =>
            IF recycledDiskCacheDirs # << >>
            THEN /\ browsers'[browserCounter].dir = Head(recycledDiskCacheDirs)
                 /\ recycledDiskCacheDirs' = Tail(recycledDiskCacheDirs)
                 /\ browserPromise'[browserCounter] = "launching"
                 /\ disk' = disk
            ELSE /\ browserPromise'[browserCounter] = "mkdtemp"
                 /\ browsers'[browserCounter].dir = NoDir
                 /\ recycledDiskCacheDirs' = << >>
       /\ ~(disk' \subseteq disk) =>
            \E i \in Ids :
                /\ browserPromise[i] = "mkdtemp"
                /\ browserPromise'[i] = "launching"
                /\ disk' = disk \cup {browsers'[i].dir}
                /\ \A j \in Ids \ {i} : browsers[j].dir # browsers'[i].dir]_vars

\* Instances 0 and 1 were killed and their directories recycled, the one of
\* instance 1 first, and the pool is about to launch instance 2: the FIFO
\* holds two directories whose order is not the order of their creation.
FifoLaunchWitness ==
    /\ browsers[0].dir = 1
    /\ browsers[1].dir = 2
    /\ recycledDiskCacheDirs = << 2, 1 >>
    /\ browserCounter = 2
    /\ activeInstances = {}
    /\ instanceKillerInterval

\* C18: on a pool that is not destroyed, with the clock and the reaper
\* running, every instance that is in retiredInstances is eventually removed
\* from it.
RetiredEventuallyKilled ==
    \A i \in Ids : (i \in retiredInstances) ~> (i \notin retiredInstances)

\* The kill procedure removed an instance whose browser runs with a page
\* open and counted: the reaper killed it for being idle.
RetiredEventuallyKilledWitness ==
    \E i \in Ids :
        /\ i < browserCounter
        /\ i \notin activeInstances \cup retiredInstances
        /\ browsers[i].connected
        /\ browsers[i].closeRequested
        /\ browsers[i].openPages > 0
        /\ instances[i].activePages > 0

\* C19: while destroy has not been called, an instance in activeInstances
\* has killed = false, its browser was not asked to close, and no part of
\* the kill procedure (5s timer, chain waiting for the browser, pending
\* close, 1s timer of targetdestroyed) exists for it.
NeverKillsActive ==
    instanceKillerInterval =>
        \A i \in activeInstances :
            /\ ~instances[i].killed
            /\ ~browsers[i].closeRequested
            /\ killTimers[i] = {}
            /\ killWaiters[i] = 0
            /\ ~closePending[i]
            /\ ~tdTimers[i]

\* The reaper has killed instance 0 and its 5s timer has fired, while
\* instance 1 is active with a running browser.
NeverKillsActiveWitness ==
    /\ instanceKillerInterval
    /\ 0 \notin activeInstances \cup retiredInstances
    /\ browsers[0].closeRequested
    /\ browsers[0].sigkill
    /\ 1 \in activeInstances
    /\ browsers[1].connected

\* C20: on a reaper tick a retired instance that has been idle for more than
\* killInstanceAfterMillis is killed and no listing of its pages is
\* requested; for any other one the pages are listed and it stays in
\* retiredInstances until the listing settles (a listing that cannot start
\* because the launch had failed kills it at once).  When a listing settles,
\* the instance is killed iff the listing failed or returned at most one page.
ReaperRule ==
    [][\A i \in retiredInstances :
          /\ ReaperTick =>
                IF now - instances[i].lastPageOpenedAt > killInstanceAfterMillis
                THEN /\ i \notin retiredInstances'
                     /\ listPending'[i] = listPending[i]
                ELSE IF browserPromise[i] = "rejected"
                     THEN i \notin retiredInstances'
                     ELSE /\ i \in retiredInstances'
                          /\ listPending'[i] = listPending[i] + 1
          /\ listPending'[i] < listPending[i] =>
                (i \notin retiredInstances' <=>
                    \/ ~browsers[i].connected
                    \/ browserPromise'[i] = "rejected"
                    \/ browsers[i].openPages + BlankPages <= 1)]_vars

\* A reaper tick found the retired instance within the idle limit and asked
\* for its pages; its browser runs with a page of newPage next to the blank
\* one, and the instance is still in retiredInstances.
ReaperRuleWitness ==
    \E i \in retiredInstances :
        /\ listPending[i] = 1
        /\ browsers[i].connected
        /\ browsers[i].openPages >= 1
        /\ now - instances[i].lastPageOpenedAt <= killInstanceAfterMillis

\* The closure recycleDiskCache of the kill procedure puts the directory of
\* instance i into the FIFO in this step (also in the step in which the
\* browser arrives and the waiting chains run).
Enqueued(i) ==
    /\ instances'[i].recycleDiskCacheDir = NoDir
    /\ \/ instances[i].recycleDiskCacheDir # NoDir
       \/ /\ browserPromise[i] = "launching"
          /\ browserPromise'[i] = "resolved"
          /\ browsers[i].dir # NoDir

\* A 5s timer of the kill procedure of instance i fires in this step.
TimerFired(i) ==
    /\ killTimers'[i] # killTimers[i]
    /\ killTimers'[i] \subseteq killTimers[i]

\* C21: the directory of an instance is put into the FIFO only in a step in
\* which a 5s timer of its kill procedure fires, or when its browser is closed
\* (no longer connected), however often the kill procedure was started
\* (stated for pools on which destroy was not called).
RecycledAfterClose ==
    [][\A i \in Ids :
          (instanceKillerInterval' /\ Enqueued(i))
              => (TimerFired(i) \/ ~browsers[i].connected)]_vars

\* C22: the directories in the FIFO are pairwise distinct and none of them
\* is the recycleDiskCacheDir of an instance: the directory of an instance is
\* put into the FIFO at most once, whichever of the close path and the 5s
\* timer comes first and however often the kill procedure was started.
FifoDistinct ==
    /\ \A a, b \in 1 .. Len(recycledDiskCacheDirs) :
           a # b => recycledDiskCacheDirs[a] # recycledDiskCacheDirs[b]
    /\ \A i \in Ids :
           instances[i].recycleDiskCacheDir # NoDir =>
               instances[i].recycleDiskCacheDir \notin SeqToSet(recycledDiskCacheDirs)

\* The browser of an instance was closed by the kill procedure, its close
\* has settled and every 5s timer has fired, one of them with the child
\* process: both paths reached the closure and the directory is in the FIFO
\* once.
FifoDistinctWitness ==
    \E i \in Ids :
        /\ browsers[i].dir # NoDir
        /\ recycledDiskCacheDirs = << browsers[i].dir >>
        /\ instances[i].recycleDiskCacheDir = NoDir
        /\ browsers[i].closeRequested
        /\ ~browsers[i].connected
        /\ ~closePending[i]
        /\ killTimers[i] = {}
        /\ browsers[i].sigkill

\* C23: whenever a close of a browser has been requested by the pool (by the
\* kill procedure or by destroy) the killed flag of its instance is set, and
\* the disconnected event of a browser whose close was requested logs no
\* error.
KilledBeforeClose ==
    /\ [](\A i \in Ids : browsers[i].closeRequested => instances[i].killed)
    /\ [][\A i \in Ids :
             (browsers[i].closeRequested /\ browsers[i].connected
                  /\ ~browsers'[i].connected) => i \notin errorLog']_vars

\* On a pool that was not destroyed the kill procedure closed a browser,
\* the browser has disconnected since and nothing was logged for it.
KilledBeforeCloseWitness ==
    \E i \in Ids :
        /\ instanceKillerInterval
        /\ browserPromise[i] = "resolved"
        /\ browsers[i].closeRequested
        /\ instances[i].killed
        /\ ~browsers[i].connected
        /\ i \notin errorLog

\* C24: when a browser disconnects, its handler logs an error iff the killed
\* flag of the instance is not set, which is the case for an active instance
\* whose close the pool has not requested; an instance in activeInstances
\* moves to retiredInstances, and for an instance that is retired or removed
\* neither map changes.
DisconnectRetires ==
    [][\A i \in Ids :
          (browsers[i].connected /\ ~browsers'[i].connected) =>
              /\ i \in errorLog' <=> ~instances[i].killed
              /\ (i \in activeInstances /\ ~browsers[i].closeRequested)
                     => i \in errorLog'
              /\ IF i \in activeInstances
                 THEN /\ activeInstances' = activeInstances \ {i}
                      /\ retiredInstances' = retiredInstances \cup {i}
                 ELSE /\ activeInstances' = activeInstances
                      /\ retiredInstances' = retiredInstances]_vars

\* A browser crashed under a call that still waits for its page: the error
\* was logged and the instance, below the cap, is in retiredInstances.
DisconnectRetiresWitness ==
    \E i \in retiredInstances :
        /\ i \in errorLog
        /\ ~browsers[i].connected
        /\ ~browsers[i].closeRequested
        /\ ~instances[i].killed
        /\ instances[i].totalPages < retireInstanceAfterRequestCount
        /\ InFlight(i) > 0

\* C25: the destruction of a target that is neither a page nor of type other
\* changes no counter, map or timer; the destruction of a page or of a target
\* of type other takes one from activePages, changes no map and starts no
\* kill procedure, and it sets the 1s timer iff activePages is 0 after it
\* and the instance is in retiredInstances.
TargetDestroyedRule ==
    [][\A i \in Ids :
          /\ (browsers'[i].connected /\ browsers'[i].workers < browsers[i].workers) =>
                /\ instances' = instances
                /\ activeInstances' = activeInstances
                /\ retiredInstances' = retiredInstances
                /\ tdTimers' = tdTimers
                /\ killTimers' = killTimers
          /\ (/\ browsers'[i].connected
              /\ \/ browsers'[i].openPages < browsers[i].openPages
                 \/ browsers'[i].others < browsers[i].others) =>
                /\ instances'[i].activePages = instances[i].activePages - 1
                /\ instances'[i].totalPages = instances[i].totalPages
                /\ activeInstances' = activeInstances
                /\ retiredInstances' = retiredInstances
                /\ killTimers' = killTimers
                /\ tdTimers'[i] =
                       (tdTimers[i] \/ (instances'[i].activePages = 0
                                          /\ i \in retiredInstances))]_vars

\* The service worker of the browser is gone, and the last counted target of
\* the retired instance was destroyed: the 1s timer is set.
TargetDestroyedRuleWitness ==
    \E i \in retiredInstances :
        /\ browsers[i].connected
        /\ limits.workers > 0
        /\ browsers[i].workers = 0
        /\ instances[i].activePages = 0
        /\ tdTimers[i]

\* C26: when a 5s timer of the kill procedure of an instance fires and the
\* instance has a child process at that time, the hard-kill signal is sent
\* to it, also when the kill procedure started while the launch was pending.
HardKillSent ==
    [][\A i \in Ids :
          (TimerFired(i) /\ instances[i].childProcess) => browsers'[i].sigkill]_vars

\* C27: a step that sends SIGINT to a child process happens only while
\* destroy has not been called; it sends the signal to the child process of
\* every instance in activeInstances and retiredInstances, leaves out the
\* instances without childProcess and the ones in neither map, and changes
\* no map and no counter.  After destroy no SIGINT is sent.
InterruptSignals ==
    [][/\ (\E j \in Ids : browsers'[j].sigint # browsers[j].sigint) =>
             /\ instanceKillerInterval
             /\ \A i \in Ids :
                    browsers'[i].sigint =
                        IF i \in activeInstances \cup retiredInstances
                        THEN browsers[i].sigint \/ instances[i].childProcess
                        ELSE browsers[i].sigint
             /\ activeInstances' = activeInstances
             /\ retiredInstances' = retiredInstances
             /\ instances' = instances
             /\ browserCounter' = browserCounter
       /\ ~instanceKillerInterval =>
             \A i \in Ids : browsers'[i].sigint = browsers[i].sigint]_vars

\* SIGINT went to the child process of a retired instance, while the active
\* instance 1, whose launch is still pending, has no child process and got
\* nothing.
InterruptSignalsWitness ==
    /\ instanceKillerInterval
    /\ 0 \in retiredInstances
    /\ browsers[0].sigint
    /\ 1 \in activeInstances
    /\ browserPromise[1] = "launching"
    /\ ~instances[1].childProcess
    /\ ~browsers[1].sigint

\* C28: for every instance, activePages is the number of pages of newPage
\* calls on it that are open or still being opened.
ActivePagesExact ==
    \A i \in Ids :
        instances[i].activePages = browsers[i].openPages + InFlight(i)

\* C29: an instance whose killed flag is set is in neither activeInstances
\* nor retiredInstances.
KilledOutOfMaps ==
    \A i \in Ids :
        instances[i].killed => i \notin activeInstances \cup retiredInstances

====
